---- MODULE Spec2Model ----
(***************************************************************************)
(* A model of pkg/util/commands.go (Command: Run, RunWithoutRetry, run,    *)
(* PathWithBinary) and pkg/helm/helm_cli.go (HelmCLI) of jx.               *)
(*                                                                         *)
(* A Go string is a sequence of atoms: single characters for texts that    *)
(* the code trims, splits or tokenises, whole path elements for PATH and   *)
(* file paths.  The empty string is << >>, concatenation is \o.            *)
(* Durations are counted in ticks of 250ms.                                *)
(***************************************************************************)
EXTENDS Integers, Sequences, FiniteSets, TLC

VARIABLES
    c,          \* the Command: attempts, Errors, Dir, Name, Args, ExponentialBackOff, Timeout, Verbose, Quiet
    PATH,       \* the process-wide PATH environment value
    pc,         \* where the caller of the Command is: "idle", or inside Run's retry loop
    elapsed,    \* ExponentialBackOff.GetElapsedTime(): ticks since the last Reset
    next,       \* the delay NextBackOff returned, while Retry sleeps
    r,          \* Run's local r: the output of the last attempt of the retry closure
    ret,        \* what the last call returned: [op, out, err]
    logged,     \* what the last attempt wrote to the informational log
    g,          \* history the code does not keep, recorded for the properties
    th,         \* two threads, each running RunWithoutRetry on a Command of its own
    tg,         \* how the caller schedules the threads, and whether their PATH updates overlapped
    h,          \* the HelmCLI: Binary, CWD; its Runner is c
    world,      \* what the HelmCLI finds: what the helm binary prints, the chart files on disk
    hres        \* what the last HelmCLI operation returned

cmdVars == <<c, pc, elapsed, next, r, ret, logged, g>>
thVars == <<th, tg>>
helmVars == <<h, world, hres>>
vars == <<c, PATH, pc, elapsed, next, r, ret, logged, g, th, tg, h, world, hres>>

----------------------------------------------------------------------------
(* Bounds *)

MaxAttempts == 3        \* no attempt is started once the counter is here
MaxTimeout == 2         \* Timeout is drawn from 0..MaxTimeout ticks
MaxAttemptTicks == 1    \* an attempt takes 1..MaxAttemptTicks ticks
MaxBodyLines == 2       \* lines the helm binary prints after the two header lines
MaxClientOps == 2       \* helm-running operations on a client whose settings change
MaxHistoryOps == 3      \* helm-running operations on a client while helm's answers change
MaxValues == 2          \* --set values, and value files, passed to a chart operation

(* Program constants, in ticks of 250ms *)

DefaultTimeout == 720   \* 3 * time.Minute
InitialInterval == 2    \* backoff.DefaultInitialInterval, 500ms
MaxInterval == 240      \* backoff.DefaultMaxInterval, 60s

----------------------------------------------------------------------------
(* Strings *)

Space == {" ", "\t", "\n"}

RECURSIVE TrimLeft(_)
TrimLeft(s) == IF s # << >> /\ Head(s) \in Space THEN TrimLeft(Tail(s)) ELSE s

RECURSIVE TrimRight(_)
TrimRight(s) ==
    IF s # << >> /\ s[Len(s)] \in Space THEN TrimRight(SubSeq(s, 1, Len(s) - 1)) ELSE s

\* a slip: strings.TrimLeft in place of strings.TrimSpace
TrimSpace_LeftOnly(s) == TrimLeft(s)

\* strings.TrimSpace
TrimSpace(s) == TrimRight(TrimLeft(s))

IsPrefix(p, s) == Len(p) <= Len(s) /\ SubSeq(s, 1, Len(p)) = p

HasSuffix(s, x) == Len(x) <= Len(s) /\ SubSeq(s, Len(s) - Len(x) + 1, Len(s)) = x

HasPrefix(s, x) == Len(x) <= Len(s) /\ SubSeq(s, 1, Len(x)) = x

\* strings.Index for a one-character separator, 1-based; 0 when absent
RECURSIVE IndexFrom(_, _, _)
IndexFrom(s, chars, i) ==
    IF i > Len(s) THEN 0 ELSE IF s[i] \in chars THEN i ELSE IndexFrom(s, chars, i + 1)

Index(s, ch) == IndexFrom(s, {ch}, 1)

\* strings.Split(s, sep) for a one-character sep
RECURSIVE Split(_, _)
Split(s, sep) ==
    LET i == Index(s, sep) IN
    IF i = 0 THEN <<s>>
    ELSE <<SubSeq(s, 1, i - 1)>> \o Split(SubSeq(s, i + 1, Len(s)), sep)

\* strings.Fields
RECURSIVE Fields(_)
Fields(s) ==
    LET t == TrimLeft(s)
        i == IndexFrom(t, Space, 1)
    IN  IF t = << >> THEN << >>
        ELSE IF i = 0 THEN <<t>>
        ELSE <<SubSeq(t, 1, i - 1)>> \o Fields(SubSeq(t, i, Len(t)))

----------------------------------------------------------------------------
(* The environment of a Command *)

NoError == [nil |-> TRUE]
NoBackOff == [nil |-> TRUE]

\* what the launched program does in one execution: its exit status and the
\* bytes it writes to its standard output and error
Executions ==
    { [exit |-> 0, data |-> <<" ", "o", "k", "\n">>],
      [exit |-> 1, data |-> <<"\n", "e", " ", "1", "\t">>],
      [exit |-> 2, data |-> << >>] }

PathListSeparator == ":"
BinDir == <<"/jx/bin">>                     \* BinaryLocation()
MvnBinDirs == { << >>, <<"/mvn/bin">> }     \* MavenBinaryLocation(): "" when not located
Dirs == { << >>, <<"/work">> }
PATH0 == <<"/usr/bin">>

----------------------------------------------------------------------------
(* Command *)

Attempts(cmd) == cmd.attempts

DidError(cmd) == Len(cmd.Errors) > 0

\* a slip: "an error occurred" taken for "every attempt errored"
DidFail_AnyError(cmd) == Len(cmd.Errors) > 0

DidFail(cmd) == Len(cmd.Errors) = cmd.attempts

Error(cmd) == IF Len(cmd.Errors) > 0 THEN cmd.Errors[Len(cmd.Errors)] ELSE NoError

IsVerbose(cmd) == cmd.Verbose

IsQuiet(cmd) == IF IsVerbose(cmd) THEN FALSE ELSE cmd.Quiet

\* exec.Cmd.CombinedOutput: it refuses to start the program when Stdout or
\* Stderr is already assigned, otherwise it returns what the program wrote and
\* an error for a non-zero exit status
CombinedOutput(stdoutSet, x) ==
    IF stdoutSet THEN [data |-> << >>, err |-> "exec: Stdout already set"]
    ELSE [data |-> x.data,
          err |-> IF x.exit = 0 THEN "nil" ELSE IF x.exit = 1 THEN "exit status 1" ELSE "exit status 2"]

\* errors.Wrapf(err, "failed to run '%s %s' command in directory '%s', output: '%s'", ...)
Wrapf(err, cmd, text) ==
    [cause |-> err, Name |-> cmd.Name, Args |-> cmd.Args, Dir |-> cmd.Dir, output |-> text]

\* Command.run on an execution x of the program: [text, err, log]
run(cmd, x) ==
    LET o == CombinedOutput(IsQuiet(cmd), x)
        text == TrimSpace(o.data)
    IN  IF o.err # "nil"
        THEN [text |-> text, err |-> Wrapf(o.err, cmd, text), log |-> << >>,
              data |-> o.data, exit |-> x.exit]
        ELSE [text |-> text, err |-> NoError,
              log |-> IF IsVerbose(cmd) THEN <<o.data>> ELSE << >>,
              data |-> o.data, exit |-> x.exit]

\* a slip: the secondary directory appended whether or not it was located
PathWithBinary_AlwaysMvn(path, binDir, mvnBinDir, paths) ==
    path \o <<PathListSeparator>> \o binDir \o <<PathListSeparator>> \o mvnBinDir
         \o <<PathListSeparator>> \o Head(paths)

\* a slip: the caller's directories left out
PathWithBinary_NoPaths(path, binDir, mvnBinDir, paths) ==
    path \o <<PathListSeparator>> \o binDir
         \o (IF mvnBinDir # << >> THEN <<PathListSeparator>> \o mvnBinDir ELSE << >>)

\* PathWithBinary(paths...) with PATH read as path
PathWithBinary(path, binDir, mvnBinDir, paths) ==
    LET answer == path \o <<PathListSeparator>> \o binDir
        withMvn == IF mvnBinDir # << >>
                   THEN answer \o <<PathListSeparator>> \o mvnBinDir
                   ELSE answer
        RECURSIVE Add(_, _)
        Add(a, ps) == IF ps = << >> THEN a
                      ELSE Add(a \o <<PathListSeparator>> \o Head(ps), Tail(ps))
    IN  Add(withMvn, paths)

\* a slip: the counter incremented inside the error branch only
Counted_FailuresOnly(cmd, res) ==
    IF res.err # NoError
    THEN [cmd EXCEPT !.attempts = @ + 1, !.Errors = Append(@, res.err)]
    ELSE cmd

\* c.attempts++ and the append to c.Errors after an attempt with result res
Counted(cmd, res) ==
    [cmd EXCEPT !.attempts = @ + 1,
                !.Errors = IF res.err # NoError THEN Append(@, res.err) ELSE @]

\* ExponentialBackOff.incrementCurrentInterval, Multiplier 1.5
IncrementCurrentInterval(cur) ==
    IF 3 * cur >= 2 * MaxInterval THEN MaxInterval ELSE (3 * cur) \div 2

\* getRandomValueFromInterval with RandomizationFactor 0.5: the delays it can return
RandomValuesFromInterval(cur) == (cur - cur \div 2) .. (cur + cur \div 2)

\* a slip: Retry gives up at the first failure, whatever time has elapsed
Stops_AtOnce(b, el) == b.MaxElapsedTime # 0

\* NextBackOff gives backoff.Stop once the elapsed time is over MaxElapsedTime
Stops(b, el) == b.MaxElapsedTime # 0 /\ el > b.MaxElapsedTime

\* a slip: Run returns r beside the error, as RunWithoutRetry does
Returned_WithOutput(text, err) == [op |-> "Run", out |-> text, err |-> err]

\* what Run returns once backoff.Retry has returned err
Returned(text, err) ==
    IF err # NoError THEN [op |-> "Run", out |-> << >>, err |-> err]
    ELSE [op |-> "Run", out |-> text, err |-> NoError]

----------------------------------------------------------------------------
\* a Command literal with the fields a caller sets
NewCommand(name, args, dir, timeout, verbose, quiet) ==
    [attempts |-> 0, Errors |-> << >>, Dir |-> dir, Name |-> name, Args |-> args,
     ExponentialBackOff |-> NoBackOff, Timeout |-> timeout, Verbose |-> verbose,
     Quiet |-> quiet]

NoReturn == [op |-> "none", out |-> << >>, err |-> NoError]

NoHistory == [calls |-> 0, op |-> "none", a0 |-> 0, e0 |-> 0, succ |-> 0, data |-> << >>,
              path |-> PATH0, mvn |-> << >>, exit |-> 0]

Threads == 1..2

NoThreads == [t \in Threads |-> [pc |-> "done", path |-> << >>, ret |-> NoReturn,
                                 c |-> NewCommand(<<"helm">>, << >>, << >>, 0, FALSE, FALSE)]]

InitNoThreads == th = NoThreads /\ tg = [serial |-> TRUE, raced |-> FALSE]

Nil == [nil |-> TRUE]

NoResult == [op |-> "none", arg |-> << >>, val |-> Nil, err |-> NoError,
             panic |-> FALSE, repos |-> Nil]

InitNoHelm ==
    /\ h = [Binary |-> <<"helm">>, CWD |-> << >>]
    /\ world = [helm |-> [exit |-> 0, data |-> << >>], files |-> {}, statErr |-> FALSE]
    /\ hres = NoResult

InitNoCommand ==
    /\ c = NewCommand(<<"helm">>, << >>, << >>, 0, FALSE, FALSE)
    /\ pc = "idle"
    /\ elapsed = 0
    /\ next = 0
    /\ r = << >>
    /\ ret = NoReturn
    /\ logged = << >>
    /\ g = NoHistory

InitCommands(timeouts) ==
    /\ c \in { NewCommand(<<"helm">>, <<"list">>, d, t, v, q) :
               d \in Dirs, t \in timeouts, v \in BOOLEAN, q \in BOOLEAN }
    /\ PATH = PATH0
    /\ pc = "idle"
    /\ elapsed = 0
    /\ next = 0
    /\ r = << >>
    /\ ret = NoReturn
    /\ logged = << >>
    /\ g = NoHistory
    /\ InitNoThreads
    /\ InitNoHelm

Init == InitCommands(0..MaxTimeout)

\* the history of a call that starts: the counters and PATH it found
Called(op, mvn) ==
    [g EXCEPT !.calls = @ + 1, !.op = op, !.a0 = c.attempts, !.e0 = Len(c.Errors),
              !.path = PATH, !.mvn = mvn]

\* the history of an attempt with result res
Attempted(hist, res) == [hist EXCEPT !.succ = IF res.err = NoError THEN @ + 1 ELSE @,
                               !.data = res.data, !.exit = res.exit]

\* Command.RunWithoutRetry
RunWithoutRetry ==
    /\ pc = "idle"
    /\ c.attempts < MaxAttempts
    /\ \E mvn \in MvnBinDirs, x \in Executions :
         LET res == run(c, x) IN
         /\ PATH' = PathWithBinary(PATH, BinDir, mvn, <<c.Dir>>)
         /\ c' = Counted(c, res)
         /\ ret' = [op |-> "RunWithoutRetry", out |-> res.text, err |-> res.err]
         /\ logged' = res.log
         /\ g' = Attempted(Called("RunWithoutRetry", mvn), res)
    /\ UNCHANGED <<pc, elapsed, next, r>>
    /\ UNCHANGED <<thVars, helmVars>>

\* a slip: ExponentialBackOff.Reset() left out, the clock of the policy not restarted
RunStart_NoReset ==
    /\ pc = "idle"
    /\ c.attempts < MaxAttempts
    /\ \E mvn \in MvnBinDirs :
         /\ PATH' = PathWithBinary(PATH, BinDir, mvn, <<c.Dir>>)
         /\ g' = Called("Run", mvn)
    /\ LET timeout == IF c.Timeout = 0 THEN DefaultTimeout ELSE c.Timeout IN
       c' = [c EXCEPT !.Timeout = timeout,
                      !.ExponentialBackOff =
                          [MaxElapsedTime |-> timeout, currentInterval |-> InitialInterval]]
    /\ r' = << >>
    /\ pc' = "attempt"
    /\ UNCHANGED <<elapsed, next, ret, logged>>
    /\ UNCHANGED <<thVars, helmVars>>

\* Command.Run up to the call of backoff.Retry
RunStart ==
    /\ pc = "idle"
    /\ c.attempts < MaxAttempts
    /\ \E mvn \in MvnBinDirs :
         /\ PATH' = PathWithBinary(PATH, BinDir, mvn, <<c.Dir>>)
         /\ g' = Called("Run", mvn)
    /\ LET timeout == IF c.Timeout = 0 THEN DefaultTimeout ELSE c.Timeout IN
       c' = [c EXCEPT !.Timeout = timeout,
                      !.ExponentialBackOff =
                          [MaxElapsedTime |-> timeout, currentInterval |-> InitialInterval]]
    /\ elapsed' = 0
    /\ r' = << >>
    /\ pc' = "attempt"
    /\ UNCHANGED <<next, ret, logged>>
    /\ UNCHANGED <<thVars, helmVars>>

\* one turn of backoff.Retry on a program that behaves as one of xs: the retry
\* closure f, then NextBackOff
Turn(xs) ==
    /\ pc = "attempt"
    /\ \E x \in xs, d \in 1..MaxAttemptTicks :
         LET res == run(c, x)
             el == elapsed + d
             b == c.ExponentialBackOff
         IN
         /\ r' = res.text
         /\ logged' = res.log
         /\ g' = Attempted(g, res)
         /\ elapsed' = el
         /\ IF res.err = NoError \/ Stops(b, el)
            THEN /\ c' = Counted(c, res)
                 /\ ret' = Returned(res.text, res.err)
                 /\ pc' = "idle"
                 /\ next' = 0
            ELSE \E n \in RandomValuesFromInterval(b.currentInterval) :
                 /\ c' = [Counted(c, res) EXCEPT !.ExponentialBackOff.currentInterval =
                                                    IncrementCurrentInterval(@)]
                 /\ next' = n
                 /\ pc' = "sleep"
                 /\ ret' = ret
    /\ UNCHANGED <<PATH, th, tg, h, world, hres>>

RunAttempt == c.attempts < MaxAttempts /\ Turn(Executions)

\* backoff.Retry waits for the timer before the next turn
RunSleep ==
    /\ pc = "sleep"
    /\ elapsed' = elapsed + next
    /\ next' = 0
    /\ pc' = "attempt"
    /\ UNCHANGED <<c, PATH, r, ret, logged, g, th, tg, h, world, hres>>

Next == RunWithoutRetry \/ RunStart \/ RunAttempt \/ RunSleep

Spec == Init /\ [][Next]_vars

----------------------------------------------------------------------------
(* One Run of a fresh Command on a program that fails on every attempt, with a
   Timeout the run reaches *)

FailingExecutions == { x \in Executions : x.exit # 0 }

RunAttemptFailing == Turn(FailingExecutions)

InitFailing == InitCommands(1..MaxTimeout)

RunFirst == g.calls = 0 /\ RunStart

NextFailing == RunFirst \/ RunAttemptFailing \/ RunSleep

SpecFailing ==
    InitFailing /\ [][NextFailing]_vars /\ WF_vars(RunAttemptFailing) /\ WF_vars(RunSleep)

----------------------------------------------------------------------------
(* Two threads, each calling RunWithoutRetry once on its own Command.  os.Getenv
   and os.Setenv are each atomic; the caller either serialises the two calls or
   does not. *)

ThreadDirs == { <<"/a">>, <<"/b">>, <<"/c">> }

InitThreads ==
    /\ InitNoCommand
    /\ InitNoHelm
    /\ PATH = PATH0
    /\ \E d1 \in ThreadDirs : \E d2 \in ThreadDirs \ {d1} :
         th = [t \in Threads |->
                 [pc |-> "start", path |-> << >>, ret |-> NoReturn,
                  c |-> NewCommand(<<"helm">>, <<"list">>, IF t = 1 THEN d1 ELSE d2,
                                   0, FALSE, FALSE)]]
    /\ tg \in [serial : BOOLEAN, raced : {FALSE}]

Other(t) == 3 - t

\* os.Getenv("PATH"), the first statement of PathWithBinary
ThreadGetenv(t) ==
    /\ th[t].pc = "start"
    /\ tg.serial => th[Other(t)].pc \in {"start", "done"}
    /\ th' = [th EXCEPT ![t].pc = "read", ![t].path = PATH]
    /\ tg' = [tg EXCEPT !.raced = @ \/ th[Other(t)].pc = "read"]
    /\ UNCHANGED PATH
    /\ UNCHANGED <<cmdVars, helmVars>>

\* the rest of PathWithBinary, and os.Setenv("PATH", ...)
ThreadSetenv(t) ==
    /\ th[t].pc = "read"
    /\ \E mvn \in MvnBinDirs :
         PATH' = PathWithBinary(th[t].path, BinDir, mvn, <<th[t].c.Dir>>)
    /\ th' = [th EXCEPT ![t].pc = "set"]
    /\ UNCHANGED tg
    /\ UNCHANGED <<cmdVars, helmVars>>

\* the rest of RunWithoutRetry: the attempt and its bookkeeping
ThreadAttempt(t) ==
    /\ th[t].pc = "set"
    /\ \E x \in Executions :
         LET res == run(th[t].c, x) IN
         th' = [th EXCEPT ![t].pc = "done",
                          ![t].c = Counted(@, res),
                          ![t].ret = [op |-> "RunWithoutRetry", out |-> res.text,
                                      err |-> res.err]]
    /\ UNCHANGED <<PATH, tg>>
    /\ UNCHANGED <<cmdVars, helmVars>>

NextThreads == \E t \in Threads : ThreadGetenv(t) \/ ThreadSetenv(t) \/ ThreadAttempt(t)

SpecThreads == InitThreads /\ [][NextThreads]_vars

----------------------------------------------------------------------------
(* HelmCLI *)

Letters == {"a", "b", "c", "e", "h", "k", "o", "p", "r", "x", "y", "D", "N", "U"}
HexDigits == {"1", "a", "b", "c", "e", "D"}

\* getScheme of net/url: [scheme, rest, err]
RECURSIVE GetSchemeFrom(_, _)
GetSchemeFrom(s, i) ==
    IF i > Len(s) THEN [scheme |-> << >>, rest |-> s, err |-> FALSE]
    ELSE IF s[i] \in Letters THEN GetSchemeFrom(s, i + 1)
    ELSE IF s[i] \in {"1", "+", "-", "."}
         THEN IF i = 1 THEN [scheme |-> << >>, rest |-> s, err |-> FALSE]
              ELSE GetSchemeFrom(s, i + 1)
    ELSE IF s[i] = ":"
         THEN IF i = 1 THEN [scheme |-> << >>, rest |-> s, err |-> TRUE]
              ELSE [scheme |-> SubSeq(s, 1, i - 1), rest |-> SubSeq(s, i + 1, Len(s)),
                    err |-> FALSE]
    ELSE [scheme |-> << >>, rest |-> s, err |-> FALSE]

\* unescape of net/url fails on a % that two hex digits do not follow
BadEscape(s) ==
    \E i \in 1..Len(s) :
        /\ s[i] = "%"
        /\ ~(i + 2 <= Len(s) /\ s[i + 1] \in HexDigits /\ s[i + 2] \in HexDigits)

\* the index of the last ":" of s, 0 when there is none
LastColon(s) ==
    IF \E i \in 1..Len(s) : s[i] = ":"
    THEN CHOOSE i \in 1..Len(s) : s[i] = ":" /\ \A j \in (i + 1)..Len(s) : s[j] # ":"
    ELSE 0

\* parseHost of net/url: what follows the last colon must be a decimal port
BadHost(host) ==
    \/ (LastColon(host) # 0
        /\ \E j \in (LastColon(host) + 1)..Len(host) : host[j] # "1")
    \/ BadEscape(host)

\* url.Parse on the strings of this model (no "?", "#", "@", "[" in them):
\* [err, Host]
ParseURL(s) ==
    LET sch == GetSchemeFrom(s, 1)
        rest == sch.rest
        slash == Index(rest, "/")
        segment == IF slash = 0 THEN rest ELSE SubSeq(rest, 1, slash - 1)
        afterSlashes == SubSeq(rest, 3, Len(rest))
        end == Index(afterSlashes, "/")
        authority == IF end = 0 THEN afterSlashes ELSE SubSeq(afterSlashes, 1, end - 1)
        path == IF end = 0 THEN << >> ELSE SubSeq(afterSlashes, end, Len(afterSlashes))
    IN  IF sch.err THEN [err |-> TRUE, Host |-> << >>]
        ELSE IF ~HasPrefix(rest, <<"/">>)
        THEN IF sch.scheme # << >> THEN [err |-> FALSE, Host |-> << >>]
             ELSE IF Index(segment, ":") # 0 THEN [err |-> TRUE, Host |-> << >>]
             ELSE [err |-> BadEscape(rest), Host |-> << >>]
        ELSE IF HasPrefix(rest, <<"/", "/">>)
                /\ (sch.scheme # << >> \/ ~HasPrefix(rest, <<"/", "/", "/">>))
        THEN IF BadHost(authority) \/ BadEscape(path) THEN [err |-> TRUE, Host |-> << >>]
             ELSE [err |-> FALSE, Host |-> authority]
        ELSE [err |-> BadEscape(rest), Host |-> << >>]

\* errors.Wrap
Wrap(err, msg) == [msg |-> msg, cause |-> err]

\* a map with key k set to v
Put(m, k, v) == [x \in (DOMAIN m) \cup {k} |-> IF x = k THEN v ELSE m[x]]

EmptyMap == [x \in {} |-> << >>]

\* the loop of ListRepos over lines[2:], from line i on
RECURSIVE ReposFrom(_, _, _)
ReposFrom(lines, i, repos) ==
    IF i > Len(lines) THEN repos
    ELSE LET line == TrimSpace(lines[i])
             fields == Fields(line)
         IN  ReposFrom(lines, i + 1,
                       IF Len(fields) > 1 THEN Put(repos, fields[1], fields[2])
                       ELSE IF Len(fields) > 0 THEN Put(repos, fields[1], << >>)
                       ELSE repos)

\* a slip: one header line skipped instead of two
ListReposOf_OneHeader(output, err) ==
    LET lines == Split(output, "\n") IN
    IF err # NoError
    THEN [val |-> Nil, err |-> Wrap(err, "failed to list repositories"), panic |-> FALSE]
    ELSE IF Len(lines) < 2 THEN [val |-> Nil, err |-> NoError, panic |-> TRUE]
    ELSE [val |-> ReposFrom(lines, 2, EmptyMap), err |-> NoError, panic |-> FALSE]

\* ListRepos on what runHelmWithOutput returned; lines[2:] panics on fewer than 2 lines
ListReposOf(output, err) ==
    LET lines == Split(output, "\n") IN
    IF err # NoError
    THEN [val |-> Nil, err |-> Wrap(err, "failed to list repositories"), panic |-> FALSE]
    ELSE IF Len(lines) < 2 THEN [val |-> Nil, err |-> NoError, panic |-> TRUE]
    ELSE [val |-> ReposFrom(lines, 3, EmptyMap), err |-> NoError, panic |-> FALSE]

\* the loop of SearchChartVersions over lines[2:], from line i on
RECURSIVE VersionsFrom(_, _, _)
VersionsFrom(lines, i, versions) ==
    IF i > Len(lines) THEN versions
    ELSE LET fields == Fields(lines[i]) IN
         VersionsFrom(lines, i + 1,
                      IF Len(fields) > 1 /\ fields[2] # << >>
                      THEN Append(versions, fields[2]) ELSE versions)

\* SearchChartVersions on what runHelmWithOutput returned
SearchChartVersionsOf(output, err) ==
    LET lines == Split(output, "\n") IN
    IF err # NoError
    THEN [val |-> Nil, err |-> Wrap(err, "failed to search chart"), panic |-> FALSE]
    ELSE IF Len(lines) < 2 THEN [val |-> Nil, err |-> NoError, panic |-> TRUE]
    ELSE [val |-> VersionsFrom(lines, 3, << >>), err |-> NoError, panic |-> FALSE]

\* a slip: the status taken from the third field of a line with 3 fields or more
RECURSIVE StatusFrom_ThreeFields(_, _, _)
StatusFrom_ThreeFields(lines, i, statusMap) ==
    IF i > Len(lines) THEN statusMap
    ELSE LET fields == Split(lines[i], "\t") IN
         StatusFrom_ThreeFields(lines, i + 1,
                    IF Len(fields) > 2
                    THEN Put(statusMap, TrimSpace(fields[1]), TrimSpace(fields[3]))
                    ELSE statusMap)

\* the loop of StatusReleases over lines[2:], from line i on
RECURSIVE StatusFrom(_, _, _)
StatusFrom(lines, i, statusMap) ==
    IF i > Len(lines) THEN statusMap
    ELSE LET fields == Split(lines[i], "\t") IN
         StatusFrom(lines, i + 1,
                    IF Len(fields) > 3
                    THEN Put(statusMap, TrimSpace(fields[1]), TrimSpace(fields[4]))
                    ELSE statusMap)

\* StatusReleases on what ListCharts returned
StatusReleasesOf(output, err) ==
    LET lines == Split(output, "\n") IN
    IF err # NoError
    THEN [val |-> Nil, err |-> Wrap(err, "failed to list the installed chart releases"),
          panic |-> FALSE]
    ELSE IF Len(lines) < 2 THEN [val |-> Nil, err |-> NoError, panic |-> TRUE]
    ELSE [val |-> StatusFrom(lines, 3, EmptyMap), err |-> NoError, panic |-> FALSE]

\* the orders in which range can visit the keys of a map
Orders(m) ==
    { o \in [1..Cardinality(DOMAIN m) -> DOMAIN m] :
        \A i, j \in DOMAIN o : o[i] = o[j] => i = j }

\* the loop of IsRepoMissing over repos, visiting the keys in the order given
RECURSIVE Missing(_, _, _, _)
Missing(repos, order, i, searchedHost) ==
    IF i > Len(order) THEN [val |-> TRUE, err |-> NoError]
    ELSE LET repoURL == repos[order[i]]
             url == ParseURL(repoURL)
         IN  IF Len(repoURL) > 0
             THEN IF url.err
                  THEN [val |-> TRUE, err |-> Wrap(repoURL, "failed to parse the repo URL")]
                  ELSE IF url.Host = searchedHost
                  THEN [val |-> FALSE, err |-> NoError]
                  ELSE Missing(repos, order, i + 1, searchedHost)
             ELSE Missing(repos, order, i + 1, searchedHost)

\* IsRepoMissing once the repositories are listed and URL is parsed
Found(repos, order, URL) == Missing(repos, order, 1, ParseURL(URL).Host)

\* IsRepoMissing on what ListRepos returned: the results it can give
IsRepoMissingOf(listed, URL) ==
    IF listed.panic THEN { [val |-> Nil, err |-> NoError, panic |-> TRUE] }
    ELSE IF listed.err # NoError
    THEN { [val |-> TRUE, err |-> Wrap(listed.err, "failed to list the repositories"),
            panic |-> FALSE] }
    ELSE IF ParseURL(URL).err
    THEN { [val |-> TRUE, err |-> Wrap(URL, "provided repo URL is invalid"),
            panic |-> FALSE] }
    ELSE { [val |-> Found(listed.val, o, URL).val, err |-> Found(listed.val, o, URL).err,
            panic |-> FALSE] : o \in Orders(listed.val) }

\* a slip: the arguments appended to those the Runner already holds
Configured_MoreArgs(args) == [c EXCEPT !.Dir = h.CWD, !.Name = h.Binary, !.Args = @ \o args]

\* a slip: the history cleared when the Runner is set up for a run
Configured_Fresh(args) ==
    [c EXCEPT !.Dir = h.CWD, !.Name = h.Binary, !.Args = args, !.attempts = 0,
              !.Errors = << >>]

\* the Runner as runHelm and runHelmWithOutput set it before the run
Configured(args) == [c EXCEPT !.Dir = h.CWD, !.Name = h.Binary, !.Args = args]

\* runHelmWithOutput(args...): RunWithoutRetry on the Runner so configured
RunHelmWithOutput(args) ==
    /\ pc = "idle"
    /\ ~hres.panic
    /\ \E mvn \in MvnBinDirs :
         LET cmd == Configured(args)
             res == run(cmd, world.helm)
         IN
         /\ PATH' = PathWithBinary(PATH, BinDir, mvn, <<cmd.Dir>>)
         /\ c' = Counted(cmd, res)
         /\ ret' = [op |-> "RunWithoutRetry", out |-> res.text, err |-> res.err]
         /\ logged' = res.log
         /\ g' = Attempted(Called("RunWithoutRetry", mvn), res)
    /\ UNCHANGED <<pc, elapsed, next, r, th, tg, h, world>>

Result(op, arg, res, repos) ==
    [op |-> op, arg |-> arg, val |-> res.val, err |-> res.err, panic |-> res.panic,
     repos |-> repos]

ListRepos ==
    /\ RunHelmWithOutput(<< <<"repo">>, <<"list">> >>)
    /\ hres' = Result("ListRepos", << >>, ListReposOf(ret'.out, ret'.err), Nil)

Charts == { <<"c">> }

SearchChartVersions(chart) ==
    /\ RunHelmWithOutput(<< <<"search">>, chart, <<"--versions">> >>)
    /\ hres' = Result("SearchChartVersions", chart,
                      SearchChartVersionsOf(ret'.out, ret'.err), Nil)

StatusReleases ==
    /\ RunHelmWithOutput(<< <<"list">> >>)
    /\ hres' = Result("StatusReleases", << >>, StatusReleasesOf(ret'.out, ret'.err), Nil)

IsRepoMissing(URL) ==
    /\ RunHelmWithOutput(<< <<"repo">>, <<"list">> >>)
    /\ LET listed == ListReposOf(ret'.out, ret'.err) IN
       \E res \in IsRepoMissingOf(listed, URL) :
          hres' = Result("IsRepoMissing", URL, res, listed.val)

(* What the helm binary prints *)

UrlX == <<"h", ":", "/", "/", "x">>
UrlXp == <<"h", ":", "/", "/", "x", "/", "p">>
UrlY == <<"h", ":", "/", "/", "y">>
UrlBad == <<"h", ":", "/", "/", "%">>

CandidateURLs == { UrlXp, UrlY, UrlBad, <<"x">>, << >> }

HeaderLine == <<"N", "\t", "U">>
SeparatorLine == <<"-">>
Headers == { << >>, <<HeaderLine>>, <<HeaderLine, SeparatorLine>> }

BodyLines ==
    { <<"a", "\t">> \o UrlX,
      <<"b", " ", " ">> \o UrlY \o <<" ">>,
      <<"b", "\t">> \o UrlBad,
      <<"a">>,
      << >>,
      <<" ", "r", " ", "\t", "x", "\t", "y", "\t", " ", "D", "\t">>,
      <<"r", "\t", "x", "\t", "y">> }

RECURSIVE SeqsUpTo(_, _)
SeqsUpTo(S, n) ==
    IF n = 0 THEN { << >> }
    ELSE LET shorter == SeqsUpTo(S, n - 1) IN
         shorter \cup { Append(q, x) : q \in shorter, x \in S }

\* the lines, each ended by a newline
RECURSIVE Unlines(_)
Unlines(lines) ==
    IF lines = << >> THEN << >> ELSE Head(lines) \o <<"\n">> \o Unlines(Tail(lines))

HelmExecutions ==
    { [exit |-> 0, data |-> Unlines(hd \o body)] :
        hd \in Headers, body \in SeqsUpTo(BodyLines, MaxBodyLines) }
    \cup { [exit |-> 1, data |-> <<"e", "\n">>] }

\* NewHelmCLI(binary, version, cwd, args...)
NewHelmCLI(binary, cwd, args) ==
    LET RECURSIVE SplitAll(_)
        SplitAll(xs) == IF xs = << >> THEN << >>
                        ELSE Split(Head(xs), " ") \o SplitAll(Tail(xs))
    IN  [cli |-> [Binary |-> binary, CWD |-> cwd],
         runner |-> NewCommand(binary, SplitAll(args), cwd, 0, FALSE, FALSE)]

InitHelm(executions, cwds, fileSets, statErrs) ==
    /\ \E cwd \in cwds :
         LET new == NewHelmCLI(<<"helm">>, cwd, << <<"--debug", " ", "--tls">> >>) IN
         /\ h = new.cli
         /\ c = new.runner
    /\ world \in [helm : executions, files : fileSets, statErr : statErrs]
    /\ hres = NoResult
    /\ PATH = PATH0
    /\ pc = "idle"
    /\ elapsed = 0
    /\ next = 0
    /\ r = << >>
    /\ ret = NoReturn
    /\ logged = << >>
    /\ g = NoHistory
    /\ InitNoThreads

InitParse == InitHelm(HelmExecutions, Dirs, {{}}, {FALSE})

\* one operation on a fresh client
NextParse ==
    /\ hres.op = "none"
    /\ \/ ListRepos
       \/ \E chart \in Charts : SearchChartVersions(chart)
       \/ StatusReleases
       \/ \E URL \in CandidateURLs : IsRepoMissing(URL)

SpecParse == InitParse /\ [][NextParse]_vars

----------------------------------------------------------------------------
(* HelmCLI.FindChart.  File paths are relative to the working directory of the
   process unless they start with "/"; world.files holds the Chart.yaml files. *)

ChartYaml == <<"Chart.yaml">>

\* filepath.Join(dir, "Chart.yaml")
Join(dir, name) == IF dir = << >> THEN name ELSE dir \o <<"/">> \o name

\* util.FileExists(path)
FileExists(path) == path \in world.files

\* the byte order of the directory names of this model
NameRank(n) == CASE n = "a" -> 1 [] n = "b" -> 2 [] n = "preview" -> 3 [] n = "z" -> 4
                 [] OTHER -> 5

\* the order in which filepath.Glob lists two matches of one pattern
Precedes(f1, f2) ==
    \/ NameRank(f1[1]) < NameRank(f2[1])
    \/ (f1[1] = f2[1] /\ Len(f1) > 3 /\ NameRank(f1[3]) <= NameRank(f2[3]))
    \/ (f1[1] = f2[1] /\ Len(f1) <= 3)

RECURSIVE Sorted(_)
Sorted(S) ==
    IF S = {} THEN << >>
    ELSE LET first == CHOOSE f \in S : \A o \in S : Precedes(f, o) IN
         <<first>> \o Sorted(S \ {first})

\* filepath.Glob of "*/Chart.yaml" (levels = 1) and "*/*/Chart.yaml" (levels = 2)
Glob(levels) ==
    Sorted({ f \in world.files : Len(f) = 2 * levels + 1 /\ f[1] # "/" })

\* a slip: the preview filter left out
IsPreview_Never(file) == FALSE

\* strings.HasSuffix(file, "/preview/Chart.yaml")
IsPreview(file) == HasSuffix(file, <<"/", "preview", "/", "Chart.yaml">>)

\* the loop of FindChart over the two-level matches: the first that is no preview
RECURSIVE FirstChart(_, _, _)
FirstChart(matches, i, chartFile) ==
    IF i > Len(matches) THEN chartFile
    ELSE IF ~IsPreview(matches[i]) THEN matches[i]
    ELSE FirstChart(matches, i + 1, chartFile)

FindChartOf(dir) ==
    LET chartFile == Join(dir, ChartYaml) IN
    IF world.statErr
    THEN [val |-> << >>, err |-> Wrap(dir, "no Chart.yaml file found in directory"),
          panic |-> FALSE]
    ELSE IF ~FileExists(chartFile)
    THEN IF Len(Glob(1)) > 0
         THEN [val |-> Glob(1)[1], err |-> NoError, panic |-> FALSE]
         ELSE [val |-> FirstChart(Glob(2), 1, chartFile), err |-> NoError, panic |-> FALSE]
    ELSE [val |-> chartFile, err |-> NoError, panic |-> FALSE]

FindChart ==
    /\ hres.op = "none"
    /\ hres' = Result("FindChart", h.CWD, FindChartOf(h.CWD), Nil)
    /\ UNCHANGED <<c, PATH, pc, elapsed, next, r, ret, logged, g, th, tg, h, world>>

ChartFiles ==
    { ChartYaml,
      <<"a", "/", "Chart.yaml">>,
      <<"preview", "/", "Chart.yaml">>,
      <<"a", "/", "b", "/", "Chart.yaml">>,
      <<"a", "/", "preview", "/", "Chart.yaml">>,
      <<"a", "/", "z", "/", "Chart.yaml">>,
      <<"preview", "/", "preview", "/", "Chart.yaml">> }

ChartDirs == { << >>, <<"a">>, <<"a", "/", "preview">>, <<"/", "work">> }

InitFind ==
    InitHelm({[exit |-> 0, data |-> << >>]}, ChartDirs, SUBSET ChartFiles, BOOLEAN)

NextFind == FindChart

SpecFind == InitFind /\ [][NextFind]_vars

----------------------------------------------------------------------------
(* HelmCLI.InstallChart and HelmCLI.UpgradeChart.  A *string or *int
   is a sequence: empty when nil, else holding the value it points to. *)

NilPtr == << >>

\* runHelm(args...): the Runner configured and run as by runHelmWithOutput; the
\* caller gets the error only
RunHelm(args) == RunHelmWithOutput(args)

Digit == <<"0", "1", "2", "3", "4", "5", "6", "7", "8", "9">>

RECURSIVE FormatNat(_)
FormatNat(n) ==
    IF n < 10 THEN <<Digit[n + 1]>> ELSE FormatNat(n \div 10) \o <<Digit[(n % 10) + 1]>>

\* strconv.Itoa
Itoa(n) == IF n < 0 THEN <<"-">> \o FormatNat(0 - n) ELSE FormatNat(n)

\* for _, v := range vs { args = append(args, flag, v) }
RECURSIVE AppendEach(_, _, _)
AppendEach(args, flag, vs) ==
    IF vs = << >> THEN args
    ELSE AppendEach(args \o <<flag, Head(vs)>>, flag, Tail(vs))

\* a slip: --version appended before --timeout
InstallArgs_VersionFirst(chart, releaseName, ns, version, timeout, values, valueFiles) ==
    LET a1 == <<<<"install">>, <<"--name">>, releaseName, <<"--namespace">>, ns, chart>>
        a2 == IF version # NilPtr THEN a1 \o <<<<"--version">>, version[1]>> ELSE a1
        a3 == IF timeout # NilPtr THEN a2 \o <<<<"--timeout">>, Itoa(timeout[1])>> ELSE a2
    IN  AppendEach(AppendEach(a3, <<"--set">>, values), <<"--values">>, valueFiles)

\* the argument vector InstallChart builds
InstallArgs(chart, releaseName, ns, version, timeout, values, valueFiles) ==
    LET a1 == <<<<"install">>, <<"--name">>, releaseName, <<"--namespace">>, ns, chart>>
        a2 == IF timeout # NilPtr THEN a1 \o <<<<"--timeout">>, Itoa(timeout[1])>> ELSE a1
        a3 == IF version # NilPtr THEN a2 \o <<<<"--version">>, version[1]>> ELSE a2
        a4 == AppendEach(a3, <<"--set">>, values)
    IN  AppendEach(a4, <<"--values">>, valueFiles)

\* a slip: the positional arguments appended before the --set and --values pairs
UpgradeArgs_PositionalEarly(chart, releaseName, ns, version, install, timeout, force, wait, values, valueFiles) ==
    LET a1 == <<<<"upgrade">>, <<"--namespace">>, ns>>
        a2 == IF install THEN Append(a1, <<"--install">>) ELSE a1
        a3 == IF wait THEN Append(a2, <<"--wait">>) ELSE a2
        a4 == IF force THEN Append(a3, <<"--force">>) ELSE a3
        a5 == IF timeout # NilPtr THEN a4 \o <<<<"--timeout">>, Itoa(timeout[1])>> ELSE a4
        a6 == IF version # NilPtr THEN a5 \o <<<<"--version">>, version[1]>> ELSE a5
        a7 == a6 \o <<releaseName, chart>>
    IN  AppendEach(AppendEach(a7, <<"--set">>, values), <<"--values">>, valueFiles)

\* the argument vector UpgradeChart builds
UpgradeArgs(chart, releaseName, ns, version, install, timeout, force, wait, values, valueFiles) ==
    LET a1 == <<<<"upgrade">>, <<"--namespace">>, ns>>
        a2 == IF install THEN Append(a1, <<"--install">>) ELSE a1
        a3 == IF wait THEN Append(a2, <<"--wait">>) ELSE a2
        a4 == IF force THEN Append(a3, <<"--force">>) ELSE a3
        a5 == IF timeout # NilPtr THEN a4 \o <<<<"--timeout">>, Itoa(timeout[1])>> ELSE a4
        a6 == IF version # NilPtr THEN a5 \o <<<<"--version">>, version[1]>> ELSE a5
        a7 == AppendEach(a6, <<"--set">>, values)
        a8 == AppendEach(a7, <<"--values">>, valueFiles)
    IN  a8 \o <<releaseName, chart>>

InstallChart(chart, releaseName, ns, version, timeout, values, valueFiles) ==
    /\ RunHelm(InstallArgs(chart, releaseName, ns, version, timeout, values, valueFiles))
    /\ hres' = Result("InstallChart",
                      [chart |-> chart, releaseName |-> releaseName, ns |-> ns,
                       version |-> version, timeout |-> timeout, values |-> values,
                       valueFiles |-> valueFiles],
                      [val |-> Nil, err |-> ret'.err, panic |-> FALSE], Nil)

UpgradeChart(chart, releaseName, ns, version, install, timeout, force, wait, values, valueFiles) ==
    /\ RunHelm(UpgradeArgs(chart, releaseName, ns, version, install, timeout, force, wait,
                           values, valueFiles))
    /\ hres' = Result("UpgradeChart",
                      [chart |-> chart, releaseName |-> releaseName, ns |-> ns,
                       version |-> version, install |-> install, timeout |-> timeout,
                       force |-> force, wait |-> wait, values |-> values,
                       valueFiles |-> valueFiles],
                      [val |-> Nil, err |-> ret'.err, panic |-> FALSE], Nil)

(* What a caller passes *)

Releases == { <<"r">> }
Namespaces == { <<"n">> }
ChartNames == { <<"c">> }
Versions == { NilPtr, << << >> >>, << <<"1.0">> >> }
TimeoutValues == { NilPtr, <<0>>, <<30>> }
SetValues == { <<"a=1">>, <<"b=2">> }
ValueFileNames == { <<"f.yaml">>, <<"g.yaml">> }

ChartExecutions == { [exit |-> 0, data |-> <<"o", "k", "\n">>],
                     [exit |-> 1, data |-> <<"e", "\n">>] }

InitCharts == InitHelm(ChartExecutions, Dirs, {{}}, {FALSE})

\* one chart operation on a fresh client
NextCharts ==
    /\ hres.op = "none"
    /\ \E chart \in ChartNames, releaseName \in Releases, ns \in Namespaces,
          version \in Versions, timeout \in TimeoutValues,
          values \in SeqsUpTo(SetValues, MaxValues),
          valueFiles \in SeqsUpTo(ValueFileNames, MaxValues) :
          \/ InstallChart(chart, releaseName, ns, version, timeout, values, valueFiles)
          \/ \E install \in BOOLEAN, force \in BOOLEAN, wait \in BOOLEAN :
                UpgradeChart(chart, releaseName, ns, version, install, timeout, force, wait,
                             values, valueFiles)

SpecCharts == InitCharts /\ [][NextCharts]_vars

----------------------------------------------------------------------------
(* One HelmCLI client used for several operations, between which the caller
   may change its directory and binary, and helm's answers may change. *)

\* HelmCLI.SetCWD
SetCWD(dir) ==
    /\ pc = "idle"
    /\ h' = [h EXCEPT !.CWD = dir]
    /\ UNCHANGED <<c, PATH, pc, elapsed, next, r, ret, logged, g, th, tg, world, hres>>

\* HelmCLI.SetHelmBinary
SetHelmBinary(binary) ==
    /\ pc = "idle"
    /\ h' = [h EXCEPT !.Binary = binary]
    /\ UNCHANGED <<c, PATH, pc, elapsed, next, r, ret, logged, g, th, tg, world, hres>>

\* the argument vector DeleteRelease builds
DeleteArgs(releaseName, purge) ==
    LET a1 == << <<"delete">> >>
        a2 == IF purge THEN Append(a1, <<"--purge">>) ELSE a1
    IN  Append(a2, releaseName)

DeleteRelease(releaseName, purge) ==
    /\ RunHelm(DeleteArgs(releaseName, purge))
    /\ hres' = Result("DeleteRelease", [releaseName |-> releaseName, purge |-> purge],
                      [val |-> Nil, err |-> ret'.err, panic |-> FALSE], Nil)

PackageChart ==
    /\ RunHelm(<< <<"package">>, h.CWD >>)
    /\ hres' = Result("PackageChart", << >>,
                      [val |-> Nil, err |-> ret'.err, panic |-> FALSE], Nil)

\* what helm does differs from one run to the next
HelmChanges(x) ==
    /\ pc = "idle"
    /\ x # world.helm
    /\ world' = [world EXCEPT !.helm = x]
    /\ UNCHANGED <<c, PATH, pc, elapsed, next, r, ret, logged, g, th, tg, h, hres>>

ClientDirs == { <<"/work">>, <<"/d">> }
Binaries == { <<"helm">>, <<"helm3">> }

ClientExecutions ==
    { [exit |-> 0, data |-> Unlines(<<HeaderLine, SeparatorLine, <<"a", "\t">> \o UrlX>>)],
      [exit |-> 1, data |-> <<"e", "\n">>] }

InitClient == InitHelm(ClientExecutions, {<<"/work">>}, {{}}, {FALSE})

\* the operations of this model that run helm
HelmOperation ==
    \/ ListRepos
    \/ \E purge \in BOOLEAN : DeleteRelease(<<"r">>, purge)
    \/ PackageChart

NextClient ==
    \/ \E dir \in ClientDirs \ {h.CWD} : SetCWD(dir)
    \/ \E binary \in Binaries \ {h.Binary} : SetHelmBinary(binary)
    \/ (c.attempts < MaxClientOps /\ HelmOperation)

SpecClient == InitClient /\ [][NextClient]_vars

NextHistory ==
    \/ \E x \in ClientExecutions : HelmChanges(x)
    \/ (c.attempts < MaxHistoryOps /\ HelmOperation)

SpecHistory == InitClient /\ [][NextHistory]_vars

----------------------------------------------------------------------------
(* Properties of Command *)

\* C1: once a call has returned at least one attempt has been made; while every
\* attempt made so far failed, DidFail() and DidError() are both true; once an
\* attempt has succeeded DidFail() is false, whatever the later attempts do.
C1_DidFail ==
    /\ (pc = "idle" /\ g.calls > 0) => c.attempts > 0
    /\ (c.attempts > 0 /\ g.succ = 0) => (DidFail(c) /\ DidError(c))
    /\ g.succ > 0 => ~DidFail(c)

\* a failed attempt after a successful one
C1_Witness ==
    /\ g.succ > 0
    /\ g.exit # 0
    /\ DidError(c)
    /\ Error(c).cause = "exit status 1"

\* C2: len(Errors) <= Attempts(); the two are equal exactly while no attempt has
\* succeeded; Attempts() - len(Errors) is the number of successful attempts; and
\* neither value ever decreases.
C2_Counters ==
    /\ [](/\ Len(c.Errors) <= Attempts(c)
          /\ (Len(c.Errors) = Attempts(c)) <=> (g.succ = 0)
          /\ Attempts(c) - Len(c.Errors) = g.succ)
    /\ [][Attempts(c') >= Attempts(c) /\ Len(c'.Errors) >= Len(c.Errors)]_vars

\* failures and a success counted on one Command
C2_Witness == g.succ = 1 /\ Len(c.Errors) = 2 /\ Attempts(c) = 3

\* C3: inside Run no attempt has succeeded yet; a Run that returns nil made one
\* attempt more than the failures it recorded and returns that last attempt's
\* trimmed output; a Run that returns an error recorded a failure for every
\* attempt, returns the last error (the value of Error()) and an empty output.
C3_Run ==
    LET made == c.attempts - g.a0
        failed == Len(c.Errors) - g.e0
    IN  /\ pc # "idle" => made = failed
        /\ (pc = "idle" /\ ret.op = "Run" /\ ret.err = NoError) =>
               /\ made = failed + 1
               /\ g.exit = 0
               /\ ret.out = r
               /\ \E i, j \in 0..Len(g.data) :
                     /\ i + j <= Len(g.data)
                     /\ ret.out = SubSeq(g.data, i + 1, Len(g.data) - j)
                     /\ \A k \in (1..i) \cup ((Len(g.data) - j + 1)..Len(g.data)) :
                           g.data[k] \in Space
                     /\ ret.out # << >> => (Head(ret.out) \notin Space
                                            /\ ret.out[Len(ret.out)] \notin Space)
        /\ (pc = "idle" /\ ret.op = "Run" /\ ret.err # NoError) =>
               /\ made = failed
               /\ made >= 1
               /\ ret.err = Error(c)
               /\ ret.err = c.Errors[Len(c.Errors)]
               /\ ret.err.output = r
               /\ ret.out = << >>

\* a Run that failed twice and then succeeded with a non-empty output
C3_Witness ==
    /\ pc = "idle" /\ ret.op = "Run" /\ ret.err = NoError
    /\ c.attempts - g.a0 = 3
    /\ Len(c.Errors) - g.e0 = 2
    /\ ret.out = <<"o", "k">>

\* a Run that used up its budget on attempts that wrote output
C3_WitnessExhausted ==
    /\ pc = "idle" /\ ret.op = "Run" /\ ret.err # NoError
    /\ c.attempts - g.a0 = 2
    /\ r # << >>

\* C5: a RunWithoutRetry call adds exactly 1 to the attempt counter; a failed
\* attempt (and every attempt of a program that exits non-zero fails) appends
\* the returned error at the end of Errors, a successful one leaves Errors
\* alone; the call returns the captured output without its leading and trailing
\* whitespace and leaves Name, Args, Dir, Timeout, Verbose and Quiet alone.
C5_RunWithoutRetry ==
    [][(g'.calls # g.calls /\ g'.op = "RunWithoutRetry") =>
          /\ ret'.op = "RunWithoutRetry"
          /\ c'.attempts = c.attempts + 1
          /\ (g'.exit # 0) => ret'.err # NoError
          /\ IF ret'.err # NoError
             THEN /\ Len(c'.Errors) = Len(c.Errors) + 1
                  /\ c'.Errors[Len(c'.Errors)] = ret'.err
                  /\ SubSeq(c'.Errors, 1, Len(c.Errors)) = c.Errors
             ELSE c'.Errors = c.Errors
          /\ \E i, j \in 0..Len(g'.data) :
                /\ i + j <= Len(g'.data)
                /\ ret'.out = SubSeq(g'.data, i + 1, Len(g'.data) - j)
                /\ \A k \in (1..i) \cup ((Len(g'.data) - j + 1)..Len(g'.data)) :
                      g'.data[k] \in Space
                /\ ret'.out # << >> => (Head(ret'.out) \notin Space
                                        /\ ret'.out[Len(ret'.out)] \notin Space)
          /\ c'.Name = c.Name /\ c'.Args = c.Args /\ c'.Dir = c.Dir
          /\ c'.Timeout = c.Timeout /\ c'.Verbose = c.Verbose /\ c'.Quiet = c.Quiet
      ]_vars

\* a failed RunWithoutRetry whose output had whitespace on both ends, after an
\* earlier failure
C5_Witness ==
    /\ ret.op = "RunWithoutRetry"
    /\ ret.err # NoError
    /\ g.data = <<"\n", "e", " ", "1", "\t">>
    /\ ret.out = <<"e", " ", "1">>
    /\ Len(c.Errors) = 2

\* C7: the step that starts a Run or RunWithoutRetry call, and no other step,
\* sets PATH to the value it read, then the auxiliary binary directory, then the
\* secondary directory if it was located, then Dir, each after a separator; a
\* Run has made no attempt at that point; the first PATH stays a prefix.
C7_Path ==
    /\ [][IF g'.calls # g.calls
          THEN /\ g'.path = PATH
               /\ PATH' = PATH \o <<":">> \o BinDir
                               \o (IF g'.mvn = << >> THEN << >> ELSE <<":">> \o g'.mvn)
                               \o <<":">> \o c.Dir
               /\ pc' # "idle" => c'.attempts = c.attempts
          ELSE PATH' = PATH]_vars
    /\ [](IsPrefix(PATH0, PATH))

\* a second call that did not locate the secondary directory, after a first that did
C7_Witness ==
    /\ g.calls = 2
    /\ g.mvn = << >>
    /\ c.Dir = <<"/work">>
    /\ PATH = <<"/usr/bin", ":", "/jx/bin", ":", "/mvn/bin", ":", "/work",
                ":", "/jx/bin", ":", "/work">>

----------------------------------------------------------------------------
(* Properties of concurrent runs *)

Contains(path, dir) == \E i \in 1..Len(path) : <<path[i]>> = dir

AllDone == \A t \in Threads : th[t].pc = "done"

\* C9: when both runs are over, PATH holds the Dir of both Commands exactly if
\* neither thread read PATH between the other's read and write; runs that the
\* caller serialises never overlap so, and PATH then holds both directories.
C9_PathRace ==
    /\ tg.serial => ~tg.raced
    /\ AllDone => ((\A t \in Threads : Contains(PATH, th[t].c.Dir)) <=> ~tg.raced)
    /\ AllDone => \E t \in Threads : Contains(PATH, th[t].c.Dir)

\* unserialised runs after which PATH lacks the directory of the first Command
C9_Witness ==
    /\ AllDone
    /\ ~tg.serial
    /\ ~Contains(PATH, th[1].c.Dir)
    /\ Contains(PATH, th[2].c.Dir)

\* serialised runs after which PATH holds both directories
C9_WitnessSerial ==
    /\ AllDone
    /\ tg.serial
    /\ \A t \in Threads : Contains(PATH, th[t].c.Dir)

----------------------------------------------------------------------------
(* Properties of HelmCLI *)

\* C6: ListRepos, SearchChartVersions and StatusReleases return a result or an
\* error for every text a successful helm run prints; none of them panics.
C6_NoPanic ==
    hres.op \in {"ListRepos", "SearchChartVersions", "StatusReleases"} => ~hres.panic

\* C8: on a listing that succeeded, IsRepoMissing returns an error if the
\* candidate or any listed URL is malformed; otherwise (false, nil) if a listed
\* URL has the candidate's host and (true, nil) if none has, whatever the order
\* in which the map is visited.
C8_IsRepoMissing ==
    (hres.op = "IsRepoMissing" /\ ~hres.panic /\ hres.repos # Nil) =>
        LET urls == { hres.repos[k] : k \in DOMAIN hres.repos } \ { << >> } IN
        IF ParseURL(hres.arg).err \/ \E u \in urls : ParseURL(u).err
        THEN hres.err # NoError
        ELSE IF \E u \in urls : ParseURL(u).Host = ParseURL(hres.arg).Host
        THEN hres.val = FALSE /\ hres.err = NoError
        ELSE hres.val = TRUE /\ hres.err = NoError

\* <CWD>/Chart.yaml, and the matches of */Chart.yaml and of */*/Chart.yaml
CwdChart == IF h.CWD = << >> THEN <<"Chart.yaml">> ELSE h.CWD \o <<"/", "Chart.yaml">>
OneLevel == { f \in world.files : Len(f) = 3 /\ f[1] # "/" }
TwoLevel == { f \in world.files : Len(f) = 5 /\ f[1] # "/" }

\* the three rules of FindChart, in their order
FindChartOrder ==
    LET eligible == { f \in TwoLevel : f[3] # "preview" } IN
    /\ hres.err = NoError
    /\ IF CwdChart \in world.files THEN hres.val = CwdChart
       ELSE IF OneLevel # {}
            THEN hres.val \in OneLevel /\ \A f \in OneLevel : Precedes(hres.val, f)
       ELSE IF eligible # {}
            THEN hres.val \in eligible /\ \A f \in eligible : Precedes(hres.val, f)
       ELSE TRUE

\* C10 (as amended): when <CWD>/Chart.yaml exists it is returned; otherwise the
\* first match of */Chart.yaml if there is one; otherwise the first match of
\* */*/Chart.yaml that does not end in /preview/Chart.yaml if there is one; a
\* two-level match ending in /preview/Chart.yaml is returned only when it is
\* <CWD>/Chart.yaml itself.
C10_FindChart ==
    (hres.op = "FindChart" /\ ~world.statErr) =>
        /\ FindChartOrder
        /\ (hres.val \in TwoLevel /\ hres.val[3] = "preview") =>
               (hres.val = CwdChart /\ CwdChart \in world.files)

\* C10 (as claimed): the same order, and a two-level match ending in
\* /preview/Chart.yaml is never returned.
C10_Original ==
    (hres.op = "FindChart" /\ ~world.statErr) =>
        /\ FindChartOrder
        /\ ~(hres.val \in TwoLevel /\ hres.val[3] = "preview")

\* no Chart.yaml in CWD, no one-level match, and a preview match listed before
\* the two-level match that is returned
C10_Witness ==
    /\ hres.op = "FindChart"
    /\ h.CWD = <<"a">>
    /\ world.files = { <<"a", "/", "preview", "/", "Chart.yaml">>,
                       <<"a", "/", "z", "/", "Chart.yaml">>,
                       <<"preview", "/", "preview", "/", "Chart.yaml">> }
    /\ hres.val = <<"a", "/", "z", "/", "Chart.yaml">>

\* the lines of the output the helm run returned, and the tokens of line i
OutLines == Split(ret.out, "\n")
Tokens(i) == Fields(OutLines[i])

\* the last line after the first two whose first token is k
LastLineOf(k) ==
    CHOOSE i \in 3..Len(OutLines) :
        /\ Tokens(i) # << >> /\ Tokens(i)[1] = k
        /\ \A j \in (i + 1)..Len(OutLines) : Tokens(j) = << >> \/ Tokens(j)[1] # k

TabFields(i) == Split(OutLines[i], "\t")

\* the lines after the first two that have more than 3 fields
StatusLines == { i \in 3..Len(OutLines) : Len(TabFields(i)) > 3 }

NoChartFound ==
    /\ CwdChart \notin world.files
    /\ OneLevel = {}
    /\ { f \in TwoLevel : f[3] # "preview" } = {}

\* C11: when no chart file is found (no <CWD>/Chart.yaml, no */Chart.yaml match,
\* no */*/Chart.yaml match outside a preview directory) FindChart returns an
\* error.
C11_NotFound ==
    (hres.op = "FindChart" /\ ~world.statErr /\ NoChartFound) => hres.err # NoError


----------------------------------------------------------------------------
(* Properties of the chart operations *)

\* flag before each element of vs, in the order of vs
Pairs(flag, vs) == [i \in 1..(2 * Len(vs)) |-> IF i % 2 = 1 THEN flag ELSE vs[(i + 1) \div 2]]

\* flag and the value ptr points to, or nothing when ptr is nil
Optional(flag, ptr) == IF Len(ptr) = 0 THEN << >> ELSE <<flag, ptr[1]>>

\* flag alone when on, or nothing
Switch(flag, on) == IF on THEN <<flag>> ELSE << >>

\* the timeout pointer with its value in decimal
Decimal(ptr) == IF Len(ptr) = 0 THEN << >> ELSE <<Itoa(ptr[1])>>

\* C14: UpgradeChart runs the client's binary in the client's directory with:
\* upgrade, --namespace <ns>, then --install, --wait, --force in that order each
\* only when its flag is true, then --timeout <n> only when timeout is present,
\* then --version <v> only when version is present, then a --set pair per value
\* in input order, then a --values pair per value file in input order, and
\* last releaseName then chart.
C14_UpgradeChart ==
    hres.op = "UpgradeChart" =>
        LET a == hres.arg IN
        /\ c.Name = h.Binary /\ c.Dir = h.CWD
        /\ c.Args = << <<"upgrade">>, <<"--namespace">>, a.ns >>
                    \o Switch(<<"--install">>, a.install)
                    \o Switch(<<"--wait">>, a.wait)
                    \o Switch(<<"--force">>, a.force)
                    \o Optional(<<"--timeout">>, Decimal(a.timeout))
                    \o Optional(<<"--version">>, a.version)
                    \o Pairs(<<"--set">>, a.values)
                    \o Pairs(<<"--values">>, a.valueFiles)
                    \o <<a.releaseName, a.chart>>
        /\ hres.err = ret.err

\* an upgrade with wait and force but not install, a timeout of 0, an empty
\* version, two values and two value files
C14_Witness ==
    /\ hres.op = "UpgradeChart"
    /\ c.attempts = 1
    /\ c.Args = << <<"upgrade">>, <<"--namespace">>, <<"n">>, <<"--wait">>, <<"--force">>,
                   <<"--timeout">>, <<"0">>, <<"--version">>, << >>,
                   <<"--set">>, <<"b=2">>, <<"--set">>, <<"a=1">>,
                   <<"--values">>, <<"g.yaml">>, <<"--values">>, <<"f.yaml">>,
                   <<"r">>, <<"c">> >>

\* C15: InstallChart runs the client's binary in the client's directory with:
\* install, --name <releaseName>, --namespace <ns>, <chart>, then --timeout <n>
\* only when timeout is present, then --version <v> only when version is
\* present, then a --set pair per value in input order, then a --values pair per
\* value file in input order, and nothing else.
C15_InstallChart ==
    hres.op = "InstallChart" =>
        LET a == hres.arg IN
        /\ c.Name = h.Binary /\ c.Dir = h.CWD
        /\ c.Args = << <<"install">>, <<"--name">>, a.releaseName, <<"--namespace">>, a.ns,
                       a.chart >>
                    \o Optional(<<"--timeout">>, Decimal(a.timeout))
                    \o Optional(<<"--version">>, a.version)
                    \o Pairs(<<"--set">>, a.values)
                    \o Pairs(<<"--values">>, a.valueFiles)
        /\ hres.err = ret.err

\* an install with a timeout of 30, a version, two values and one value file
C15_Witness ==
    /\ hres.op = "InstallChart"
    /\ c.attempts = 1
    /\ c.Args = << <<"install">>, <<"--name">>, <<"r">>, <<"--namespace">>, <<"n">>, <<"c">>,
                   <<"--timeout">>, <<"3", "0">>, <<"--version">>, <<"1.0">>,
                   <<"--set">>, <<"a=1">>, <<"--set">>, <<"b=2">>,
                   <<"--values">>, <<"f.yaml">> >>

----------------------------------------------------------------------------
(* Properties of a client used for several operations *)

\* C16: no operation resets the Runner's history: the attempt counter is the
\* number of helm-running operations made so far on the client and Errors holds
\* one error per failed run; every step keeps the errors recorded so far, in
\* their order; once DidError() is true it stays true; and an operation whose
\* run succeeds leaves Error() as it was, an error of an earlier operation.
C16_History ==
    /\ [](/\ c.attempts = g.calls
          /\ Len(c.Errors) = g.calls - g.succ
          /\ (g.calls > g.succ) => (DidError(c) /\ Error(c) # NoError))
    /\ [][/\ IsPrefix(c.Errors, c'.Errors)
          /\ c'.attempts >= c.attempts
          /\ DidError(c) => DidError(c')
          /\ (g'.calls # g.calls /\ ret'.err = NoError) => Error(c') = Error(c)]_vars

\* a failed listing followed by two successful deletions: Error() still reports
\* the listing, although the Runner now holds the deletion's arguments
C16_Witness ==
    /\ c.attempts = 3
    /\ g.succ = 2
    /\ hres.op = "DeleteRelease" /\ hres.err = NoError
    /\ DidError(c)
    /\ Error(c).Args = << <<"repo">>, <<"list">> >>
    /\ c.Args = << <<"delete">>, <<"r">> >>
    /\ ~DidFail(c)

\* the argument vector of the operation that returned res, on a client in cwd
OwnArgs(res, cwd) ==
    CASE res.op = "ListRepos" -> << <<"repo">>, <<"list">> >>
      [] res.op = "DeleteRelease" ->
             << <<"delete">> >> \o Switch(<<"--purge">>, res.arg.purge)
                                \o <<res.arg.releaseName>>
      [] res.op = "PackageChart" -> << <<"package">>, cwd >>

\* C19: a step that runs helm leaves the Runner with the client's Binary as
\* Name, the client's CWD as Dir and the arguments of that operation alone as
\* Args, none of them an argument given to NewHelmCLI; the run was made with
\* these values (a failure reports them, and PATH ends with that Dir); any
\* other step (SetCWD, SetHelmBinary) leaves the Runner alone.
C19_Overwrite ==
    [][IF g'.calls # g.calls
       THEN /\ h' = h
            /\ c'.Name = h.Binary
            /\ c'.Dir = h.CWD
            /\ c'.Args = OwnArgs(hres', h.CWD)
            /\ \A i \in 1..Len(c'.Args) : c'.Args[i] \notin { <<"--debug">>, <<"--tls">> }
            /\ HasSuffix(PATH', h.CWD)
            /\ ret'.err # NoError =>
                   /\ ret'.err.Name = h.Binary
                   /\ ret'.err.Dir = h.CWD
                   /\ ret'.err.Args = OwnArgs(hres', h.CWD)
       ELSE c' = c /\ PATH' = PATH]_vars

\* a deletion that failed in /work with helm, then, after SetCWD and
\* SetHelmBinary, a listing that failed in /d with helm3
C19_Witness ==
    /\ c.attempts = 2
    /\ Len(c.Errors) = 2
    /\ c.Errors[1].Name = <<"helm">> /\ c.Errors[1].Dir = <<"/work">>
    /\ c.Errors[1].Args = << <<"delete">>, <<"--purge">>, <<"r">> >>
    /\ h.CWD = <<"/d">> /\ h.Binary = <<"helm3">>
    /\ hres.op = "ListRepos"
    /\ c.Errors[2].Name = <<"helm3">> /\ c.Errors[2].Dir = <<"/d">>
    /\ c.Errors[2].Args = << <<"repo">>, <<"list">> >>
    /\ c.Args = << <<"repo">>, <<"list">> >>

----------------------------------------------------------------------------
(* Properties of quiet mode and of the retry budget *)

\* C17: in quiet mode (Quiet set, Verbose not set) an attempt on a program that
\* launches and exits with status zero is a success: RunWithoutRetry returns an
\* empty text and a nil error, appends nothing to Errors and logs nothing.
C17_Quiet ==
    (IsQuiet(c) /\ pc = "idle" /\ ret.op = "RunWithoutRetry" /\ g.exit = 0) =>
        /\ ret.err = NoError
        /\ ret.out = << >>
        /\ Len(c.Errors) = g.e0
        /\ logged = << >>

\* C18: the step that starts a Run sets the policy's max elapsed time, and
\* Timeout, to 3 minutes when Timeout was zero and to Timeout otherwise, and
\* restarts the policy: no time elapsed, the delay back at its initial value.
\* No other step changes Timeout or the max elapsed time.  The loop sleeps only
\* while the elapsed time is within the max elapsed time, the first delay of a
\* Run is drawn around the initial delay, and a Run returns an error only once
\* more than Timeout has elapsed.
C18_Timeout ==
    /\ [][IF g'.calls # g.calls /\ g'.op = "Run"
          THEN LET used == IF c.Timeout = 0 THEN DefaultTimeout ELSE c.Timeout IN
               /\ c'.ExponentialBackOff.MaxElapsedTime = used
               /\ c'.Timeout = used
               /\ c'.ExponentialBackOff.currentInterval = InitialInterval
               /\ elapsed' = 0
          ELSE /\ c'.Timeout = c.Timeout
               /\ pc # "idle" =>
                      c'.ExponentialBackOff.MaxElapsedTime = c.ExponentialBackOff.MaxElapsedTime
         ]_vars
    /\ [](pc # "idle" => c.ExponentialBackOff.MaxElapsedTime = c.Timeout)
    /\ [](pc = "sleep" => elapsed <= c.Timeout)
    /\ []((pc = "sleep" /\ c.attempts = g.a0 + 1) =>
              (elapsed <= MaxAttemptTicks
               /\ next \in RandomValuesFromInterval(InitialInterval)))
    /\ []((pc = "idle" /\ ret.op = "Run" /\ ret.err # NoError) => elapsed > c.Timeout)

\* a second Run on a Command whose Timeout was zero: the first Run slept and
\* retried, the second sleeps after its first failure with the clock and the
\* delay started afresh and Timeout at 3 minutes
C18_Witness ==
    /\ g.calls = 2 /\ g.op = "Run"
    /\ g.a0 = 2
    /\ pc = "sleep"
    /\ c.attempts = 3
    /\ c.Timeout = DefaultTimeout
    /\ elapsed = 1
    /\ c.ExponentialBackOff.currentInterval = 3

----------------------------------------------------------------------------
(* Properties of Run on a program that always fails *)

\* C4: a Run on a program that fails on every attempt returns; when it returns,
\* more than Timeout has elapsed since the retry loop started, and it returns
\* the error of the last attempt.
C4_Exhaustion ==
    /\ (pc # "idle") ~> (pc = "idle")
    /\ [](pc = "idle" /\ ret.op = "Run" =>
             /\ ret.err # NoError
             /\ elapsed > c.Timeout
             /\ c.Timeout = c.ExponentialBackOff.MaxElapsedTime
             /\ ret.err = c.Errors[Len(c.Errors)]
             /\ c.attempts - g.a0 = Len(c.Errors) - g.e0)

\* a Run with Timeout 2 that gave up after a second failed attempt
C4_Witness ==
    /\ pc = "idle" /\ ret.op = "Run"
    /\ c.Timeout = 2
    /\ c.attempts - g.a0 = 2
    /\ elapsed > 2

====
